---- MODULE Spec2Model ----
(***************************************************************************)
(* Model of controllers/messages.js: the message and conversation stores,  *)
(* the send, readMessages and addMessage use cases cut at each of their    *)
(* awaits (so that concurrent calls interleave there), the message         *)
(* operations updateMessage and deleteMessage, and the two queries.        *)
(***************************************************************************)
EXTENDS Integers, FiniteSets, Sequences, TLC

\* ------------------------------------------------------------- bounds
\* Number of calls (send, addMessage, updateMessage, deleteMessage,
\* readMessages) made in one behaviour.
MaxCalls == 3

\* ------------------------------------------------------------- inputs
NULL == "null"
\* The null id: lastMessage of a conversation without messages, a missing id.
NoId == 0

\* Concurrent request handlers (each runs one send, one readMessages or one
\* addMessage at a time). A request is given to the first handler that is
\* free.
Procs == {1, 2}

\* User ids: u1 and u2 are registered users, u3 has no user document.
Users == {"u1", "u2", "u3"}
Registered ==
  {"u1", "u2", "k1", "k2", "k3", "k4", "k5", "k6", "k7", "k8", "k9", "k10",
   "k11"}

\* The (userFrom, userTo) arguments send is called with: both orders of a
\* pair, a send to oneself, and a send to an id with no user document.
SendArgs ==
  { [userFrom |-> "u1", userTo |-> "u2"],
    [userFrom |-> "u2", userTo |-> "u1"],
    [userFrom |-> "u1", userTo |-> "u1"],
    [userFrom |-> "u2", userTo |-> "u3"] }

\* An id that is not a well-formed ObjectId: no document has it, however
\* many the store holds (the ids of documents count from 1).
MalformedId == -1

\* ------------------------------------------------------------- enums
PENDING == "PENDING"
ACCEPTED == "ACCEPTED"
REJECTED == "REJECTED"
READ == "READ"
SENT == "SENT"

\* Schema defaults of the two collections (set by models/index.js).
DefaultConversationStatus == PENDING
DefaultMessageStatus == SENT

\* Device tokens of each registered user (usersModel documents, field fcms).
Fcms(u) == IF u = "u1" THEN <<"tok1">> ELSE <<>>

VARIABLES
  conversations,  \* conversationsModel: set of documents
  messages,       \* messagesModel: set of documents
  msgCount,       \* number of message ids issued so far
  now,            \* the time of the last messagesModel.create call
  pc,             \* per handler: the await its call is at
  args,           \* per handler: params of the running call
  conversationExists, \* per handler: send's local conversation document
  createdAt,      \* per handler: the time its messagesModel.create was called
  message,        \* per handler: the message addMessage returned
  created,        \* per handler: the conversation its send has created
  attempted,      \* per handler: notification calls send has made, in order
  result,         \* per handler: what send returned or threw
  calls,          \* number of calls made so far
  lastOp          \* outcome of the last CRUD operation

vars == <<conversations, messages, msgCount, now, pc, args,
          conversationExists, createdAt, message, created, attempted,
          result, calls, lastOp>>

storeVars == <<conversations, messages, msgCount>>
sendVars ==
  <<pc, args, conversationExists, createdAt, message, created, attempted,
    result>>

\* ------------------------------------------------------------- store
\* A store in which u2 has rejected u1's conversation request: one message
\* was sent and the conversation was then set to REJECTED (no operation of
\* messages.js sets REJECTED; the status exists in the enum).
RejectedStore ==
  [ conversations |->
      { [_id |-> 1, userFrom |-> "u1", userTo |-> "u2",
         status |-> REJECTED, lastMessage |-> 1] },
    messages |->
      { [_id |-> 1, userFrom |-> "u1", userTo |-> "u2", conversation |-> 1,
         text |-> "hi", status |-> SENT, createdAt |-> 1] },
    msgCount |-> 1, now |-> 1, calls |-> 0 ]

EmptyStore ==
  [conversations |-> {}, messages |-> {}, msgCount |-> 0, now |-> 0,
   calls |-> 0]

\* Eleven users with a user document, besides u1 and u2.
Crowd ==
  <<"k1", "k2", "k3", "k4", "k5", "k6", "k7", "k8", "k9", "k10", "k11">>

\* A store in which u1 has sent one message to each user of the crowd, one
\* send after the other: eleven PENDING conversations, one more than the
\* default limit, each with its message as lastMessage. The sends that
\* built it are the calls made: only queries follow.
CrowdedStore ==
  [ conversations |->
      { [_id |-> i, userFrom |-> "u1", userTo |-> Crowd[i],
         status |-> PENDING, lastMessage |-> i] : i \in 1 .. Len(Crowd) },
    messages |->
      { [_id |-> i, userFrom |-> "u1", userTo |-> Crowd[i],
         conversation |-> i, text |-> "hi", status |-> SENT,
         createdAt |-> i] : i \in 1 .. Len(Crowd) },
    msgCount |-> Len(Crowd), now |-> Len(Crowd), calls |-> MaxCalls ]

\* Null values of the handlers' locals, shaped like the documents they hold.
NoArgs == [userFrom |-> NULL, userTo |-> NULL]
NoDoc == [_id |-> NoId, userFrom |-> NULL, userTo |-> NULL, status |-> NULL,
          lastMessage |-> NoId]
NoMessage == [_id |-> NoId, userFrom |-> NULL, userTo |-> NULL,
              conversation |-> NoId, text |-> NULL, status |-> NULL,
              createdAt |-> 0]
NoResult == [success |-> FALSE, error |-> NULL, data |-> NoMessage]
NoOp == [op |-> NULL, error |-> NULL, data |-> NoMessage]

\* The handlers at rest over a given store.
InitOver(s) ==
  /\ conversations = s.conversations
  /\ messages = s.messages
  /\ msgCount = s.msgCount
  /\ now = s.now
  /\ createdAt = [p \in Procs |-> 0]
  /\ pc = [p \in Procs |-> "idle"]
  /\ args = [p \in Procs |-> NoArgs]
  /\ conversationExists = [p \in Procs |-> NoDoc]
  /\ message = [p \in Procs |-> NoMessage]
  /\ created = [p \in Procs |-> NoId]
  /\ attempted = [p \in Procs |-> <<>>]
  /\ result = [p \in Procs |-> NoResult]
  /\ calls = s.calls
  /\ lastOp = NoOp

Init == InitOver(EmptyStore)

\* The start of the behaviours about a rejected conversation.
InitRejected == InitOver(RejectedStore)

\* The start of the behaviours that query the stores: the empty store, or
\* the crowded one.
InitQuery == InitOver(EmptyStore) \/ InitOver(CrowdedStore)

\* ------------------------------------------------------------- send
\* Mutant: the query matches the stored ordering only.
QueryMatchesOneOrder(c, userFrom, userTo) ==
  c.userFrom = userFrom /\ c.userTo = userTo

\* The query matches every conversation the sender is a party of.
QueryMatchesSender(c, userFrom, userTo) ==
  c.userTo = userFrom \/ c.userFrom = userFrom

\* The query of send: either ordering of (userFrom, userTo).
QueryMatches(c, userFrom, userTo) ==
  \/ (c.userTo = userFrom /\ c.userFrom = userTo)
  \/ (c.userFrom = userFrom /\ c.userTo = userTo)

\* conversationsModel.findOne(query): a matching document, or NULL.
FindOne(userFrom, userTo) ==
  LET found == {c \in conversations : QueryMatches(c, userFrom, userTo)}
  IN  IF found = {} THEN {NoDoc} ELSE found

\* Mutant: any send into a PENDING conversation counts as the reply.
IsReplyFromAnyone(userFrom, doc) == TRUE

\* The PENDING branch: the sender is the stored userTo.
IsReply(userFrom, doc) == userFrom = doc.userTo

\* Mutant: a REJECTED conversation is reused like an ACCEPTED one.
ResolveIgnoringRejected(userFrom, doc) ==
  IF doc = NoDoc
    THEN [pc |-> "create", doc |-> NoDoc, error |-> NULL]
  ELSE IF doc.status = PENDING /\ IsReply(userFrom, doc)
    THEN [pc |-> "saveStatus", doc |-> [doc EXCEPT !.status = ACCEPTED],
          error |-> NULL]
  ELSE [pc |-> "addMessage", doc |-> doc, error |-> NULL]

\* What send does with the document findOne returned, up to its next await:
\* the pc it continues at, its local document and the error it throws.
Resolve(userFrom, doc) ==
  IF doc = NoDoc
    THEN [pc |-> "create", doc |-> NoDoc, error |-> NULL]
  ELSE IF doc.status = PENDING
    THEN IF IsReply(userFrom, doc)
           THEN [pc |-> "saveStatus", doc |-> [doc EXCEPT !.status = ACCEPTED],
                 error |-> NULL]
           ELSE [pc |-> "addMessage", doc |-> doc, error |-> NULL]
  ELSE IF doc.status = REJECTED
    THEN [pc |-> "done", doc |-> doc,
          error |-> "Conversation request rejected!|||400"]
  ELSE [pc |-> "addMessage", doc |-> doc, error |-> NULL]

\* Mutant: save writes the whole local document over the stored one.
SaveWholeDocument(doc, paths) ==
  { IF c._id = doc._id THEN doc ELSE c : c \in conversations }

\* document.save(): writes the paths modified since the document was loaded
\* or last saved.
Save(doc, paths) ==
  { IF c._id = doc._id
      THEN [c EXCEPT
              !.status = IF "status" \in paths THEN doc.status ELSE @,
              !.lastMessage = IF "lastMessage" \in paths
                                THEN doc.lastMessage ELSE @]
      ELSE c : c \in conversations }

\* Mutant: the new conversation's two user fields are swapped.
NewConversationSwapped(userFrom, userTo) ==
  [_id |-> Cardinality(conversations) + 1, userFrom |-> userTo,
   userTo |-> userFrom, status |-> DefaultConversationStatus,
   lastMessage |-> NoId]

\* conversationsModel.create({userTo, userFrom}).
NewConversation(userFrom, userTo) ==
  [_id |-> Cardinality(conversations) + 1, userFrom |-> userFrom,
   userTo |-> userTo, status |-> DefaultConversationStatus,
   lastMessage |-> NoId]

\* The document messagesModel.create stores: the fields addMessage was
\* given and the creation time, taken when create was called.
NewMessage(userFrom, userTo, conversation, time) ==
  [_id |-> msgCount + 1, userFrom |-> userFrom, userTo |-> userTo,
   conversation |-> conversation, text |-> "hi",
   status |-> DefaultMessageStatus, createdAt |-> time]

\* The times a messagesModel.create call can read off the clock, which
\* counts milliseconds: that of the create call before it, or a later one.
Stamps == IF now = 0 THEN {1} ELSE {now, now + 1}

\* send returns or throws: its local document goes out of scope, its
\* outcome stays with the caller.
Return(p, res) ==
  /\ pc' = [pc EXCEPT ![p] = "done"]
  /\ result' = [result EXCEPT ![p] = res]
  /\ conversationExists' = [conversationExists EXCEPT ![p] = NoDoc]
  /\ UNCHANGED <<args, now, createdAt>>

Threw(error) == [success |-> FALSE, error |-> error, data |-> NoMessage]

\* send goes on to its next await with local document doc. When that is
\* the await of addMessage, messagesModel.create has been called and has
\* taken the creation time of the message it will store.
Goto(p, next, doc) ==
  /\ pc' = [pc EXCEPT ![p] = next]
  /\ conversationExists' = [conversationExists EXCEPT ![p] = doc]
  /\ IF next = "addMessage"
       THEN \E time \in Stamps :
              /\ now' = time
              /\ createdAt' = [createdAt EXCEPT ![p] = time]
       ELSE UNCHANGED <<now, createdAt>>
  /\ UNCHANGED <<result, args>>

StartSend(p) ==
  /\ pc[p] \in {"idle", "done"}
  /\ \A q \in Procs : q < p => pc[q] \notin {"idle", "done"}
  /\ calls < MaxCalls
  /\ calls' = calls + 1
  /\ \E a \in SendArgs : args' = [args EXCEPT ![p] = a]
  /\ pc' = [pc EXCEPT ![p] = "findOne"]
  /\ conversationExists' = [conversationExists EXCEPT ![p] = NoDoc]
  /\ message' = [message EXCEPT ![p] = NoMessage]
  /\ created' = [created EXCEPT ![p] = NoId]
  /\ attempted' = [attempted EXCEPT ![p] = <<>>]
  /\ result' = [result EXCEPT ![p] = NoResult]
  /\ createdAt' = [createdAt EXCEPT ![p] = 0]
  /\ UNCHANGED <<storeVars, now, lastOp>>

SendFindOne(p) ==
  /\ pc[p] = "findOne"
  /\ \E doc \in FindOne(args[p].userFrom, args[p].userTo) :
       LET r == Resolve(args[p].userFrom, doc)
       IN  IF r.error # NULL
             THEN Return(p, Threw(r.error))
             ELSE Goto(p, r.pc, r.doc)
  /\ UNCHANGED <<storeVars, message, created, attempted, calls, lastOp>>

SendSaveStatus(p) ==
  /\ pc[p] = "saveStatus"
  /\ conversations' = Save(conversationExists[p], {"status"})
  /\ Goto(p, "addMessage", conversationExists[p])
  /\ UNCHANGED <<messages, msgCount, message, created, attempted, calls,
                 lastOp>>

SendCreate(p) ==
  /\ pc[p] = "create"
  /\ LET c == NewConversation(args[p].userFrom, args[p].userTo)
     IN  /\ conversations' = conversations \cup {c}
         /\ created' = [created EXCEPT ![p] = c._id]
         /\ Goto(p, "addMessage", c)
  /\ UNCHANGED <<messages, msgCount, message, attempted, calls, lastOp>>

\* The awaited addMessage returns the message stored, the local document
\* takes it as lastMessage and save() is called.
SendAddMessage(p) ==
  /\ pc[p] = "addMessage"
  /\ LET m == NewMessage(args[p].userFrom, args[p].userTo,
                         conversationExists[p]._id, createdAt[p])
     IN  /\ messages' = messages \cup {m}
         /\ message' = [message EXCEPT ![p] = m]
         /\ Goto(p, "saveLastMessage",
                 [conversationExists[p] EXCEPT !.lastMessage = m._id])
  /\ msgCount' = msgCount + 1
  /\ UNCHANGED <<conversations, created, attempted, calls, lastOp>>

\* A handler's position names the await it is at: the call awaited has been
\* made, and the step from the position is the call's outcome together with
\* the code up to the next await, the next call included.
\*
\* The fan-out calls a handler has made so far, extended by the call it
\* makes on its way to its next await.
Called(p, call) == attempted' = [attempted EXCEPT ![p] = Append(@, call)]

\* await conversationExists.save() resolves, writing the lastMessage the
\* local document was given, and emitEvent is called.
SendSaveLastMessage(p) ==
  /\ pc[p] = "saveLastMessage"
  /\ conversations' = Save(conversationExists[p], {"lastMessage"})
  /\ Goto(p, "emitEvent", conversationExists[p])
  /\ Called(p, "emitEvent")
  /\ UNCHANGED <<messages, msgCount, message, created, calls, lastOp>>

\* The calls of the fan-out (socket emitEvent, addNotification, firebase
\* notify) are to collaborators outside this file: each returns or throws.
CallOutcomes == {"returns", "throws"}

\* What FirebaseManager.notify is called with for message m: the tokens of
\* the recipient's user document, none when it has none.
NotifyArgs(m) == [fcms |-> Fcms(m.userTo), title |-> "New Message"]

\* SendEmitEvent undoing the message when emitEvent throws.
SendEmitEventRollingBack(p) ==
  /\ pc[p] = "emitEvent"
  /\ \E outcome \in CallOutcomes :
       IF outcome = "throws"
         THEN /\ Return(p, Threw("emitEvent failed"))
              /\ messages' = messages \ {message[p]}
              /\ UNCHANGED attempted
         ELSE /\ Goto(p, "addNotification", conversationExists[p])
              /\ Called(p, "addNotification")
              /\ UNCHANGED messages
  /\ UNCHANGED <<conversations, msgCount, message, created, calls, lastOp>>

\* The awaited SocketManager().emitEvent(...) returns, and addNotification
\* is called, or it throws, and send ends with the error, there being no
\* try around it.
SendEmitEvent(p) ==
  /\ pc[p] = "emitEvent"
  /\ \E outcome \in CallOutcomes :
       IF outcome = "throws"
         THEN /\ Return(p, Threw("emitEvent failed"))
              /\ UNCHANGED attempted
         ELSE /\ Goto(p, "addNotification", conversationExists[p])
              /\ Called(p, "addNotification")
  /\ UNCHANGED <<storeVars, message, created, calls, lastOp>>

\* The awaited notificationsController.addNotification(notificationObj)
\* returns, and usersModel.findById is called, or it throws.
SendAddNotification(p) ==
  /\ pc[p] = "addNotification"
  /\ \E outcome \in CallOutcomes :
       IF outcome = "throws"
         THEN Return(p, Threw("addNotification failed"))
         ELSE Goto(p, "findById", conversationExists[p])
  /\ UNCHANGED <<storeVars, message, created, attempted, calls, lastOp>>

\* The awaited usersModel.findById(message.userTo).select("fcms") returns:
\* the forEach over its fcms is a TypeError when the recipient has no user
\* document; otherwise notify is called.
SendFindById(p) ==
  /\ pc[p] = "findById"
  /\ IF message[p].userTo \notin Registered
       THEN /\ Return(p, Threw("TypeError"))
            /\ UNCHANGED attempted
       ELSE /\ Goto(p, "notify", conversationExists[p])
            /\ Called(p, "notify")
  /\ UNCHANGED <<storeVars, message, created, calls, lastOp>>

\* The awaited FirebaseManager().notify(...) returns, and send returns the
\* message, or it throws.
SendNotify(p) ==
  /\ pc[p] = "notify"
  /\ \E outcome \in CallOutcomes :
       IF outcome = "throws"
         THEN Return(p, Threw("notify failed"))
         ELSE Return(p, [success |-> TRUE, error |-> NULL,
                         data |-> message[p]])
  /\ UNCHANGED <<storeVars, message, created, attempted, calls, lastOp>>

\* The positions of a send in its fan-out, one at each await, and all the
\* positions of a send.
FanOutPositions == {"emitEvent", "addNotification", "findById", "notify"}
SendPositions ==
  {"findOne", "saveStatus", "create", "addMessage", "saveLastMessage"}
    \cup FanOutPositions

Send(p) ==
  \/ StartSend(p)
  \/ SendFindOne(p)
  \/ SendSaveStatus(p)
  \/ SendCreate(p)
  \/ SendAddMessage(p)
  \/ SendSaveLastMessage(p)
  \/ SendEmitEvent(p)
  \/ SendAddNotification(p)
  \/ SendFindById(p)
  \/ SendNotify(p)

\* ------------------------------------------------------------- CRUD
\* A user id that is not the text of an ObjectId.
MalformedUser == "not-an-id"

IsValidObjectId(id) == id # MalformedId

\* UpdatedMessage writing both fields whether supplied or not.
UpdatedMessageOverwriting(m, text, status) ==
  [m EXCEPT !.text = text, !.status = status]

\* messagesModel.findByIdAndUpdate({_id: message}, messageObj, {new: true}):
\* only the fields put into messageObj are written.
UpdatedMessage(m, text, status) ==
  [m EXCEPT !.text = IF text # NULL THEN text ELSE @,
            !.status = IF status # NULL THEN status ELSE @]

UpdateMessage(id, text, status) ==
  /\ calls < MaxCalls
  /\ calls' = calls + 1
  /\ IF id = NoId
       THEN /\ lastOp' = [op |-> "updateMessage",
                          error |-> "Please enter message id!|||400",
                          data |-> NoMessage]
            /\ UNCHANGED messages
     ELSE IF ~IsValidObjectId(id)
       THEN /\ lastOp' = [op |-> "updateMessage",
                          error |-> "Please enter valid message id!|||400",
                          data |-> NoMessage]
            /\ UNCHANGED messages
     ELSE IF \E m \in messages : m._id = id
       THEN LET m == CHOOSE x \in messages : x._id = id
                u == UpdatedMessage(m, text, status)
            IN  /\ messages' = (messages \ {m}) \cup {u}
                /\ lastOp' = [op |-> "updateMessage", error |-> NULL,
                              data |-> u]
     ELSE /\ lastOp' = [op |-> "updateMessage",
                        error |-> "Message not found!|||404",
                        data |-> NoMessage]
          /\ UNCHANGED messages
  /\ UNCHANGED <<conversations, msgCount, now, sendVars>>

\* messagesModel.findByIdAndDelete(message): a malformed id fails the cast.
DeleteMessage(id) ==
  /\ calls < MaxCalls
  /\ calls' = calls + 1
  /\ IF id = NoId
       THEN /\ lastOp' = [op |-> "deleteMessage",
                          error |-> "Please enter message id!|||400",
                          data |-> NoMessage]
            /\ UNCHANGED messages
     ELSE IF ~IsValidObjectId(id)
       THEN /\ lastOp' = [op |-> "deleteMessage", error |-> "CastError",
                          data |-> NoMessage]
            /\ UNCHANGED messages
     ELSE IF \E m \in messages : m._id = id
       THEN LET m == CHOOSE x \in messages : x._id = id
            IN  /\ messages' = messages \ {m}
                /\ lastOp' = [op |-> "deleteMessage", error |-> NULL,
                              data |-> m]
     ELSE /\ lastOp' = [op |-> "deleteMessage",
                        error |-> "Please enter valid message id!|||400",
                        data |-> NoMessage]
          /\ UNCHANGED messages
  /\ UNCHANGED <<conversations, msgCount, now, sendVars>>

\* ReadAll with the filter on userTo left out.
ReadAllOfConversation(conversation, userTo) ==
  { IF m.conversation = conversation
      THEN [m EXCEPT !.status = READ] ELSE m : m \in messages }

\* messagesModel.updateMany({conversation, userTo}, {status: READ}).
ReadAll(conversation, userTo) ==
  { IF m.conversation = conversation /\ m.userTo = userTo
      THEN [m EXCEPT !.status = READ] ELSE m : m \in messages }

\* The ids readMessages is called with: no userTo, a userTo that is not
\* the text of an ObjectId, a user with and one without a user document; no
\* conversation, a malformed id, the ids in the store and one that is not.
ReadUsers == {NULL, MalformedUser, "u2", "u3"}
ReadConversations ==
  {NoId, MalformedId} \cup (1 .. (Cardinality(conversations) + 1))

\* readMessages ends: it returns, or throws the error.
ReadReturn(p, error) ==
  /\ pc' = [pc EXCEPT ![p] = "done"]
  /\ lastOp' = [op |-> "readMessages", error |-> error, data |-> NoMessage]

\* A handler takes a readMessages call, up to its first await: the call is
\* refused at once without a userTo.
StartRead(p, conversation, userTo) ==
  /\ pc[p] \in {"idle", "done"}
  /\ \A q \in Procs : q < p => pc[q] \notin {"idle", "done"}
  /\ calls < MaxCalls
  /\ calls' = calls + 1
  /\ args' = [args EXCEPT ![p] = [userFrom |-> NULL, userTo |-> userTo,
                                  conversation |-> conversation]]
  /\ conversationExists' = [conversationExists EXCEPT ![p] = NoDoc]
  /\ message' = [message EXCEPT ![p] = NoMessage]
  /\ created' = [created EXCEPT ![p] = NoId]
  /\ attempted' = [attempted EXCEPT ![p] = <<>>]
  /\ result' = [result EXCEPT ![p] = NoResult]
  /\ IF userTo = NULL
       THEN ReadReturn(p, "Please enter userTo id!|||400")
       ELSE /\ pc' = [pc EXCEPT ![p] = "existsUser"]
            /\ UNCHANGED lastOp
  /\ createdAt' = [createdAt EXCEPT ![p] = 0]
  /\ UNCHANGED <<storeVars, now>>

\* await usersModel.exists({_id: userTo}), a CastError on a malformed id,
\* and the test of conversation that follows it.
ReadExistsUser(p) ==
  /\ pc[p] = "existsUser"
  /\ IF args[p].userTo = MalformedUser
       THEN ReadReturn(p, "CastError")
     ELSE IF args[p].userTo \notin Registered
       THEN ReadReturn(p, "Please enter valid userTo id!|||400")
     ELSE IF args[p].conversation = NoId
       THEN ReadReturn(p, "Please enter conversation id!|||400")
     ELSE /\ pc' = [pc EXCEPT ![p] = "existsConversation"]
          /\ UNCHANGED lastOp
  /\ UNCHANGED <<storeVars, now, createdAt, args, conversationExists,
                 message, created, attempted, result, calls>>

\* await conversationsModel.exists({_id: conversation}).
ReadExistsConversation(p) ==
  /\ pc[p] = "existsConversation"
  /\ IF ~IsValidObjectId(args[p].conversation)
       THEN ReadReturn(p, "CastError")
     ELSE IF ~ \E c \in conversations : c._id = args[p].conversation
       THEN ReadReturn(p, "Please enter valid conversation id!|||400")
     ELSE /\ pc' = [pc EXCEPT ![p] = "updateMany"]
          /\ UNCHANGED lastOp
  /\ UNCHANGED <<storeVars, now, createdAt, args, conversationExists,
                 message, created, attempted, result, calls>>

\* await messagesModel.updateMany(...), and the return.
ReadUpdateMany(p) ==
  /\ pc[p] = "updateMany"
  /\ messages' = ReadAll(args[p].conversation, args[p].userTo)
  /\ ReadReturn(p, NULL)
  /\ UNCHANGED <<conversations, msgCount, now, createdAt, args,
                 conversationExists, message, created, attempted, result,
                 calls>>

ReadMessages(p) ==
  \/ \E c \in ReadConversations, u \in ReadUsers : StartRead(p, c, u)
  \/ ReadExistsUser(p)
  \/ ReadExistsConversation(p)
  \/ ReadUpdateMany(p)

\* The fields addMessage is called with on its own: two users and a
\* conversation of the store, whoever its parties are, or two users and no
\* conversation.
AddMessageArgs ==
  { [userFrom |-> "u2", userTo |-> "u3", conversation |-> c] :
      c \in 1 .. Cardinality(conversations) }
    \cup { [userFrom |-> "u1", userTo |-> "u2", conversation |-> NoId] }

\* A handler takes an addMessage call made on its own, up to its await:
\* messagesModel.create is called with the fields given, whatever they are,
\* and takes the creation time of the message it will store.
StartAddMessage(p, userFrom, userTo, conversation) ==
  /\ pc[p] \in {"idle", "done"}
  /\ \A q \in Procs : q < p => pc[q] \notin {"idle", "done"}
  /\ calls < MaxCalls
  /\ calls' = calls + 1
  /\ args' = [args EXCEPT ![p] = [userFrom |-> userFrom, userTo |-> userTo,
                                  conversation |-> conversation]]
  /\ pc' = [pc EXCEPT ![p] = "messageCreate"]
  /\ conversationExists' = [conversationExists EXCEPT ![p] = NoDoc]
  /\ message' = [message EXCEPT ![p] = NoMessage]
  /\ created' = [created EXCEPT ![p] = NoId]
  /\ attempted' = [attempted EXCEPT ![p] = <<>>]
  /\ result' = [result EXCEPT ![p] = NoResult]
  /\ \E time \in Stamps :
       /\ now' = time
       /\ createdAt' = [createdAt EXCEPT ![p] = time]
  /\ UNCHANGED <<storeVars, lastOp>>

\* await messagesModel.create(messageObj) resolves: the message is stored,
\* with the time taken at the call, and addMessage returns it. No
\* conversation is read or written.
AddMessageCreate(p) ==
  /\ pc[p] = "messageCreate"
  /\ LET m == NewMessage(args[p].userFrom, args[p].userTo,
                         args[p].conversation, createdAt[p])
     IN  /\ messages' = messages \cup {m}
         /\ lastOp' = [op |-> "addMessage", error |-> NULL, data |-> m]
  /\ msgCount' = msgCount + 1
  /\ pc' = [pc EXCEPT ![p] = "done"]
  /\ UNCHANGED <<conversations, now, createdAt, args, conversationExists,
                 message, created, attempted, result, calls>>

AddMessage(p) ==
  \/ \E a \in AddMessageArgs :
       StartAddMessage(p, a.userFrom, a.userTo, a.conversation)
  \/ AddMessageCreate(p)

\* ------------------------------------------------------------- queries
\* if (!limit) limit = 10: a limit left out, or 0, is the default.
DefaultLimit == 10

\* if (!page) page = 0; if (page) page = page - 1: pages are counted from 1
\* by the caller and from 0 by the pipeline; a page left out, or 0, is the
\* first.
PageIndex(page) == IF page = 0 THEN 0 ELSE page - 1

LimitOf(limit) == IF limit = 0 THEN DefaultLimit ELSE limit

\* A $sort, newest first, of the documents docs on the time each one has:
\* every order of them in which no document comes before a newer one. The
\* order among documents of the same time is not specified, and each run of
\* a pipeline may give another.
RECURSIVE SortDesc(_, _)
SortDesc(docs, time) ==
  IF docs = {} THEN {<<>>}
  ELSE UNION { { <<d>> \o rest : rest \in SortDesc(docs \ {d}, time) } :
                 d \in {x \in docs : \A y \in docs : time[x] >= time[y]} }

\* $sort: {createdAt: -1}.
SortByCreatedAtDesc(ms) == SortDesc(ms, [m \in ms |-> m.createdAt])

\* $project: {createdAt: 0, updatedAt: 0, __v: 0} of a message.
WithoutTimestamps(m) ==
  [_id |-> m._id, userFrom |-> m.userFrom, userTo |-> m.userTo,
   conversation |-> m.conversation, text |-> m.text, status |-> m.status]

\* $skip: n and $limit: n over a sequence of documents.
Skip(docs, n) == SubSeq(docs, n + 1, Len(docs))
Limit(docs, n) == SubSeq(docs, 1, IF n < Len(docs) THEN n ELSE Len(docs))

\* $ceil of $divide of two positive integers.
CeilDivide(a, b) == (a + b - 1) \div b

\* {$skip: page * limit} and {$limit: limit}: the server takes a $skip
\* that is not negative and a $limit that is positive, and fails the
\* aggregate otherwise, whatever is stored.
PagingAccepted(page, limit) == page * limit >= 0 /\ limit > 0

\* The tail of both pipelines over the sorted documents: $facet into the
\* count and the page, $unwind of totalCount (no output document when
\* nothing was counted), $project, and the spread of the first output
\* document over the defaults {data: [], totalCount: 0, totalPages: 0}.
Paginate(docs, page, limit) ==
  LET totalCount == IF Len(docs) = 0 THEN <<>> ELSE <<Len(docs)>>
      data == Limit(Skip(docs, page * limit), limit)
  IN  IF totalCount = <<>>
        THEN [success |-> TRUE, error |-> NULL, data |-> <<>>,
              totalCount |-> 0, totalPages |-> 0]
        ELSE [success |-> TRUE, error |-> NULL, data |-> data,
              totalCount |-> totalCount[1],
              totalPages |-> CeilDivide(totalCount[1], limit)]

QueryThrew(error) ==
  [success |-> FALSE, error |-> error, data |-> <<>>,
   totalCount |-> 0, totalPages |-> 0]

\* PairMatches with the first of the two $and branches only.
PairMatchesOneOrder(m, user1, user2) ==
  m.userTo = user1 /\ m.userFrom = user2

\* The $or of getMessages on a pair.
PairMatches(m, user1, user2) ==
  \/ m.userTo = user1 /\ m.userFrom = user2
  \/ m.userFrom = user1 /\ m.userTo = user2

\* getMessages: the query is by conversation when one is given, else by the
\* pair when both users are given, else the call is refused. ObjectId()
\* throws on an id that is malformed, and the aggregate on a page or limit
\* it does not take. What the call can return: one result for each order
\* the $sort can give.
GetMessagesResult(params) ==
  LET page == PageIndex(params.page)
      limit == LimitOf(params.limit)
      Pipeline(matched) ==
        IF ~PagingAccepted(page, limit)
          THEN {QueryThrew("MongoServerError")}
          ELSE { Paginate([i \in 1 .. Len(sorted) |->
                             WithoutTimestamps(sorted[i])], page, limit) :
                   sorted \in SortByCreatedAtDesc(matched) }
  IN  IF params.conversation # NoId
        THEN IF ~IsValidObjectId(params.conversation)
               THEN {QueryThrew("BSONTypeError")}
               ELSE Pipeline({m \in messages :
                                m.conversation = params.conversation})
      ELSE IF params.user1 # NULL /\ params.user2 # NULL
        THEN IF MalformedUser \in {params.user1, params.user2}
               THEN {QueryThrew("BSONTypeError")}
               ELSE Pipeline({m \in messages :
                                PairMatches(m, params.user1, params.user2)})
      ELSE {QueryThrew("Please enter conversation id!|||400")}

QueryOps == {"getMessages", "getConversations"}

\* What a query returns depends on the stores alone and a query leaves them
\* as they are: a behaviour is observed by one query.
NoQueryYet == lastOp.op \notin QueryOps

GetMessages(params) ==
  /\ NoQueryYet
  /\ \E r \in GetMessagesResult(params) :
       lastOp' = [op |-> "getMessages", error |-> NULL, data |-> NoMessage,
                  params |-> params, result |-> r]
  /\ UNCHANGED <<storeVars, now, sendVars, calls>>

\* The display names in the users collection, as sequences of characters:
\* u1 is "Ab" and every other user with a user document is "bo"; u3 has no
\* user document.
Name(u) == IF u = "u1" THEN <<"A", "b">> ELSE <<"b", "o">>

\* The values of q a caller passes; <<>> is q left out or empty, which
\* q ? q.toString().trim() : "" treats alike. Two of them hold a character
\* that is special in a regular expression: "." and "(".
Keywords ==
  { <<>>, <<"a", "B">>, <<"o">>, <<" ", "o", " ">>, <<" ">>, <<"b", ".">>,
    <<"(">> }

\* String.prototype.trim on a sequence of characters.
RECURSIVE Trim(_)
Trim(str) ==
  IF str = <<>> THEN <<>>
  ELSE IF Head(str) = " " THEN Trim(Tail(str))
  ELSE IF str[Len(str)] = " " THEN Trim(SubSeq(str, 1, Len(str) - 1))
  ELSE str

\* Case folding of $options: "i".
Lower(ch) == IF ch = "A" THEN "a" ELSE IF ch = "B" THEN "b" ELSE ch

\* The keyword compiles as a regular expression: of the characters of
\* Keywords, "(" opens a group that nothing closes.
RegexValid(keyword) == \A j \in 1 .. Len(keyword) : keyword[j] # "("

\* {name: {$regex: keyword, $options: "i"}}: the keyword, taken as a
\* pattern and not escaped, matches somewhere in the name, case folded. Of
\* the characters of Keywords, "." stands for any one character and the
\* letters and the space for themselves.
RegexMatches(name, keyword) ==
  \E i \in 0 .. (Len(name) - Len(keyword)) :
    \A j \in 1 .. Len(keyword) :
      keyword[j] = "." \/ Lower(name[i + j]) = Lower(keyword[j])

\* $cond: {if: {$eq: ["$userTo", user]}, then: "$userFrom", else: "$userTo"}.
Peer(c, user) == IF c.userTo = user THEN c.userFrom ELSE c.userTo

\* $lookup of lastMessage with its $project, for a lastMessage that
\* resolves.
LastMessageOf(c) ==
  LET m == CHOOSE x \in messages : x._id = c.lastMessage
  IN  [_id |-> m._id, text |-> m.text, userFrom |-> m.userFrom,
       createdAt |-> m.createdAt]

\* $sort: {"lastMessage.createdAt": -1} over looked-up conversations.
SortByLastMessageDesc(cs) ==
  SortDesc(cs, [c \in cs |-> LastMessageOf(c).createdAt])

\* The second $project, the $lookup of the peer in users with the $match on
\* name, and the $unwind that drops a conversation whose peer was not found.
RECURSIVE WithPeers(_, _, _)
WithPeers(cs, user, keyword) ==
  IF cs = <<>> THEN <<>>
  ELSE LET c == Head(cs)
           peer == Peer(c, user)
           rest == WithPeers(Tail(cs), user, keyword)
       IN  IF peer \in Registered /\ RegexMatches(Name(peer), keyword)
             THEN <<[_id |-> c._id,
                     user |-> [_id |-> peer, name |-> Name(peer)],
                     lastMessage |-> LastMessageOf(c)]>> \o rest
             ELSE rest

\* getConversations: $match on the user when one is given, $lookup and
\* $unwind of lastMessage (a conversation whose lastMessage is null or
\* matches no message is dropped), the sort, the peers, the page. The
\* aggregate fails on a keyword that is no regular expression and on a page
\* or limit it does not take. What the call can return: one result for
\* each order the $sort can give.
GetConversationsResult(params) ==
  LET page == PageIndex(params.page)
      limit == LimitOf(params.limit)
      keyword == Trim(params.q)
      matched == IF params.user # NULL
                   THEN {c \in conversations :
                           c.userTo = params.user \/ c.userFrom = params.user}
                   ELSE conversations
      looked == {c \in matched : \E m \in messages : m._id = c.lastMessage}
  IN  IF ~RegexValid(keyword) \/ ~PagingAccepted(page, limit)
        THEN {QueryThrew("MongoServerError")}
        ELSE { Paginate(WithPeers(sorted, params.user, keyword),
                        page, limit) :
                 sorted \in SortByLastMessageDesc(looked) }

GetConversations(params) ==
  /\ NoQueryYet
  /\ \E r \in GetConversationsResult(params) :
       lastOp' = [op |-> "getConversations", error |-> NULL,
                  data |-> NoMessage, params |-> params, result |-> r]
  /\ UNCHANGED <<storeVars, now, sendVars, calls>>

\* ------------------------------------------------------------- behaviours
\* Ids a caller may pass: none, a malformed one, every id issued so far and
\* one well-formed id that was never issued.
MessageIds == {NoId, MalformedId} \cup (1 .. (msgCount + 1))

Next ==
  \/ \E p \in Procs : Send(p)
  \/ \E id \in MessageIds, text \in {NULL, "edited"}, status \in {NULL, READ} :
       UpdateMessage(id, text, status)
  \/ \E id \in MessageIds : DeleteMessage(id)
  \/ \E p \in Procs : ReadMessages(p)
  \/ \E p \in Procs : AddMessage(p)

Spec == Init /\ [][Next]_vars

\* Calls of send only, overlapping as the handlers take them.
NextSends == \E p \in Procs : Send(p)

SpecSends == Init /\ [][NextSends]_vars

\* The same operations over a store holding a REJECTED conversation.
SpecRejected == InitRejected /\ [][Next]_vars

\* Sends that do not overlap: a send starts only when no other is running.
NoSendRunning == \A p \in Procs : pc[p] \notin SendPositions

NextSeq ==
  \/ \E p \in Procs : NoSendRunning /\ StartSend(p)
  \/ \E p \in Procs : SendFindOne(p)
  \/ \E p \in Procs : SendSaveStatus(p)
  \/ \E p \in Procs : SendCreate(p)
  \/ \E p \in Procs : SendAddMessage(p)
  \/ \E p \in Procs : SendSaveLastMessage(p)
  \/ \E p \in Procs : SendEmitEvent(p)
  \/ \E p \in Procs : SendAddNotification(p)
  \/ \E p \in Procs : SendFindById(p)
  \/ \E p \in Procs : SendNotify(p)

SpecSeq == Init /\ [][NextSeq]_vars

\* The parameters getMessages is called with: by conversation with every
\* page and limit from a negative one up to one page past the last, by pair
\* in both orders, by both, and with too little or with a malformed id.
MaxLimit == 2

GetMessagesParams ==
  LET P(c, u1, u2, pg, l) == [conversation |-> c, user1 |-> u1, user2 |-> u2,
                              page |-> pg, limit |-> l]
      Count(c) == Cardinality({m \in messages : m.conversation = c})
  IN  UNION { { P(c, NULL, NULL, pg, l) :
                  pg \in -1 .. (Count(c) + 1), l \in -1 .. MaxLimit } :
                c \in 1 .. (Cardinality(conversations) + 1) }
      \cup { P(NoId, a.userFrom, a.userTo, pg, pg) :
               a \in SendArgs, pg \in -1 .. 1 }
      \cup { P(NoId, a.userTo, a.userFrom, pg, pg) :
               a \in SendArgs, pg \in -1 .. 1 }
      \cup { P(c, a.userFrom, a.userTo, 0, 0) :
               c \in 1 .. Cardinality(conversations), a \in SendArgs }
      \cup { P(NoId, NULL, NULL, 0, 0), P(NoId, "u1", NULL, 0, 0),
             P(NoId, NULL, "u2", 0, 0), P(MalformedId, NULL, NULL, 0, 0),
             P(MalformedId, "u1", "u2", 0, 0),
             P(NoId, MalformedUser, "u1", 0, 0) }

\* The parameters getConversations is called with: every user or none with
\* every keyword, page and limit left out, and u1 without a keyword with
\* every page and limit from a negative one on.
GetConversationsParams ==
  { [user |-> u, q |-> q, page |-> 0, limit |-> 0] :
      u \in Users \cup {NULL}, q \in Keywords }
    \cup { [user |-> "u1", q |-> <<>>, page |-> pg, limit |-> l] :
             pg \in -1 .. 2, l \in -1 .. MaxLimit }

\* No call is running on any handler.
NoCallRunning == \A p \in Procs : pc[p] \in {"idle", "done"}

\* Sends that run one at a time and alone, addMessage calls that overlap one
\* another and deleteMessage calls on stored messages build the stores; one
\* query observes them, at any point.
NextQuery ==
  \/ \E p \in Procs : NoQueryYet /\ NoCallRunning /\ StartSend(p)
  \/ \E p \in Procs : NoQueryYet /\ SendFindOne(p)
  \/ \E p \in Procs : NoQueryYet /\ SendSaveStatus(p)
  \/ \E p \in Procs : NoQueryYet /\ SendCreate(p)
  \/ \E p \in Procs : NoQueryYet /\ SendAddMessage(p)
  \/ \E p \in Procs : NoQueryYet /\ SendSaveLastMessage(p)
  \/ \E p \in Procs : NoQueryYet /\ SendEmitEvent(p)
  \/ \E p \in Procs : NoQueryYet /\ SendAddNotification(p)
  \/ \E p \in Procs : NoQueryYet /\ SendFindById(p)
  \/ \E p \in Procs : NoQueryYet /\ SendNotify(p)
  \/ \E p \in Procs : NoQueryYet /\ NoSendRunning /\ AddMessage(p)
  \/ \E m \in messages : NoQueryYet /\ DeleteMessage(m._id)
  \/ \E params \in GetMessagesParams : GetMessages(params)
  \/ \E params \in GetConversationsParams : GetConversations(params)

SpecQuery == InitQuery /\ [][NextQuery]_vars

\* ------------------------------------------------------------- claims
ConversationBlocked == "Conversation request rejected!|||400"

Participants(c) == {c.userFrom, c.userTo}

\* The document with the given id in a conversation store, NoDoc if none.
ConvIn(store, id) ==
  IF \E c \in store : c._id = id
    THEN CHOOSE c \in store : c._id = id
    ELSE NoDoc

\* Handler p takes a step of its send from the await named at.
Steps(p, at) == pc[p] = at /\ pc'[p] # at

\* C1: in every reachable state there is at most one conversation for any
\* unordered pair of users, also when sends between them run concurrently.
\* Stated for two different users A and B, as the claim is.
C1_OneConversationPerPair ==
  \A c1, c2 \in conversations :
    (c1.userFrom # c1.userTo /\ Participants(c1) = Participants(c2))
      => c1._id = c2._id

\* C2: a send that finds the pair's conversation REJECTED fails with the
\* ConversationBlocked error and changes nothing: no message is created, no
\* conversation is changed (status stays REJECTED, lastMessage stays), and no
\* notification action is called; a REJECTED conversation is never changed.
C2_BlockedStep(p) ==
  (/\ Steps(p, "findOne")
   /\ \E c \in conversations :
        /\ QueryMatches(c, args[p].userFrom, args[p].userTo)
        /\ c.status = REJECTED)
  => /\ pc'[p] = "done"
     /\ result'[p] = [success |-> FALSE, error |-> ConversationBlocked,
                      data |-> NoMessage]
     /\ UNCHANGED storeVars
     /\ message'[p] = NoMessage
     /\ attempted'[p] = <<>>

C2_BlockedSend ==
  \A p \in Procs :
    result[p].error = ConversationBlocked =>
      /\ pc[p] = "done"
      /\ message[p] = NoMessage
      /\ attempted[p] = <<>>

C2_RejectedSendFails ==
  /\ []C2_BlockedSend
  /\ [][/\ \A p \in Procs : C2_BlockedStep(p)
        /\ \A c \in conversations :
             c.status = REJECTED => c \in conversations']_vars

\* C2 witness: sends by both parties into the REJECTED conversation have
\* failed with ConversationBlocked, and the store is as it was.
C2_Witness ==
  /\ \E p, q \in Procs :
       /\ result[p].error = ConversationBlocked
       /\ result[q].error = ConversationBlocked
       /\ args[p] = [userFrom |-> "u1", userTo |-> "u2"]
       /\ args[q] = [userFrom |-> "u2", userTo |-> "u1"]
  /\ conversations = RejectedStore.conversations
  /\ messages = RejectedStore.messages

\* C3 (as stated): a conversation goes from PENDING to ACCEPTED only in a
\* send whose sender is its stored userTo, and a send by its initiator (the
\* stored userFrom) into a PENDING conversation leaves it PENDING.
C3_AcceptedOnlyByRecipient(c) ==
  (c.status = PENDING /\ ConvIn(conversations', c._id).status = ACCEPTED)
  => \E p \in Procs :
       /\ Steps(p, "saveStatus")
       /\ conversationExists[p]._id = c._id
       /\ args[p].userFrom = c.userTo

C3_InitiatorStep(p, c) ==
  /\ pc'[p] # pc[p]
  /\ pc[p] \in SendPositions
  /\ args[p].userFrom = c.userFrom
  /\ QueryMatches(c, args[p].userFrom, args[p].userTo)
  /\ c.status = PENDING

C3_Original ==
  [][\A c \in conversations :
       /\ C3_AcceptedOnlyByRecipient(c)
       /\ \A p \in Procs :
            C3_InitiatorStep(p, c) =>
              ConvIn(conversations', c._id).status = PENDING]_vars

\* C3 (amended): as above, the second part for conversations between two
\* different users: a send by the initiator, who is not also the stored
\* userTo, into a PENDING conversation leaves it PENDING.
C3_AcceptOnlyOnReply ==
  [][\A c \in conversations :
       /\ C3_AcceptedOnlyByRecipient(c)
       /\ \A p \in Procs :
            (C3_InitiatorStep(p, c) /\ c.userFrom # c.userTo) =>
              ConvIn(conversations', c._id).status = PENDING]_vars

\* C3 witness: the initiator u1 has sent twice and the conversation with u2
\* is still PENDING with the second message as lastMessage.
C3_Witness ==
  \E c \in conversations :
    /\ c.userFrom = "u1" /\ c.userTo = "u2" /\ c.status = PENDING
    /\ Cardinality({m \in messages :
                      m.conversation = c._id /\ m.userFrom = "u1"}) = 2
    /\ \E p \in Procs :
         /\ pc[p] = "done" /\ result[p].success
         /\ c.lastMessage = message[p]._id

\* C4: the reply of the stored userTo sets a PENDING conversation to
\* ACCEPTED, and an ACCEPTED conversation stays ACCEPTED in every step of
\* every operation, also when a send that loaded it while PENDING saves its
\* lastMessage after the reply has set ACCEPTED.
C4_AcceptedStaysAccepted ==
  [][\A c \in conversations :
       /\ c.status = ACCEPTED =>
            ConvIn(conversations', c._id).status = ACCEPTED
       /\ \A p \in Procs :
            (Steps(p, "saveStatus") /\ conversationExists[p]._id = c._id) =>
              ConvIn(conversations', c._id).status = ACCEPTED]_vars

\* C4 witness: a send holds a document it loaded as PENDING, has saved its
\* lastMessage into the conversation, and the conversation is ACCEPTED.
C4_Witness ==
  \E p \in Procs :
    /\ pc[p] = "emitEvent"
    /\ conversationExists[p].status = PENDING
    /\ LET c == ConvIn(conversations, conversationExists[p]._id)
       IN  c.status = ACCEPTED /\ c.lastMessage = message[p]._id

\* C5: in every reachable state each conversation's lastMessage is null or
\* references a stored message whose conversation is that conversation.
\* Stated for the conversations between two different users.
C5_LastMessageResolves ==
  \A c \in conversations :
    \/ c.userFrom = c.userTo
    \/ c.lastMessage = NoId
    \/ \E m \in messages : m._id = c.lastMessage /\ m.conversation = c._id

\* C6: a send that has persisted its message returns that message as a
\* success, whatever notification action failed. Stated for the sends from
\* a user to another, registered user.
C6_SendSucceedsOncePersisted ==
  \A p \in Procs :
    (/\ pc[p] = "done" /\ message[p] # NoMessage
     /\ args[p].userFrom # args[p].userTo /\ args[p].userTo \in Registered) =>
      result[p] = [success |-> TRUE, error |-> NULL, data |-> message[p]]

\* C7: a send that has persisted its message has, when it ends, attempted
\* each of the three fan-out actions (real-time event, notification record,
\* push), whichever of the others failed. Stated for the sends from a user
\* to another, registered user.
C7_AllFanOutAttempted ==
  \A p \in Procs :
    (/\ pc[p] = "done" /\ message[p] # NoMessage
     /\ args[p].userFrom # args[p].userTo /\ args[p].userTo \in Registered) =>
      attempted[p] = <<"emitEvent", "addNotification", "notify">>

\* The messages of a conversation, and the newest of them: those no other
\* was created after.
MessagesOf(c) == {m \in messages : m.conversation = c._id}
Newest(ms) == {m \in ms : \A n \in ms : n.createdAt <= m.createdAt}

\* C8: whenever no send is in progress, every conversation with a message
\* has the most recently created message of the conversation as its
\* lastMessage. Stated for the conversations between two different users
\* and the states in which no message has been deleted, so that a violation
\* is one of interleaved sends alone.
C8_LastMessageIsNewest ==
  (NoSendRunning /\ Cardinality(messages) = msgCount) =>
    \A c \in conversations :
      (c.userFrom # c.userTo /\ MessagesOf(c) # {}) =>
        \E m \in Newest(MessagesOf(c)) : c.lastMessage = m._id

\* The unordered pair of a message's users.
Pair(m) == {m.userFrom, m.userTo}

\* C9: with sends that do not overlap, all messages between two users, in
\* either direction, carry the same conversation id, and the pair has at
\* most one conversation.
C9_SequentialSendsReuse ==
  /\ \A m1, m2 \in messages :
       Pair(m1) = Pair(m2) => m1.conversation = m2.conversation
  /\ \A c1, c2 \in conversations :
       Participants(c1) = Participants(c2) => c1._id = c2._id

\* C9 witness: u1 sent to u2 twice and u2 sent to u1, all three messages in
\* the one conversation of the pair.
C9_Witness ==
  /\ Cardinality({m \in messages :
                    m.userFrom = "u1" /\ m.userTo = "u2"}) = 2
  /\ Cardinality({m \in messages :
                    m.userFrom = "u2" /\ m.userTo = "u1"}) = 1
  /\ Cardinality(conversations) = 1
  /\ \A m \in messages : m.conversation = 1
  /\ NoSendRunning

\* A send that finds no conversation for its pair creates exactly one
\* conversation, PENDING, from its sender to its recipient and without a
\* lastMessage.
C10_CreateStep(p) ==
  Steps(p, "create") =>
    /\ \E c \in conversations' :
         /\ c \notin conversations
         /\ conversations' = conversations \cup {c}
         /\ \A d \in conversations : d._id # c._id
         /\ c.status = PENDING
         /\ c.userFrom = args[p].userFrom
         /\ c.userTo = args[p].userTo
         /\ c.lastMessage = NoId
         /\ conversationExists'[p] = c
         /\ created'[p] = c._id
    /\ UNCHANGED <<messages, msgCount>>
    /\ pc'[p] = "addMessage"

\* It then creates exactly one message, with the default status SENT,
\* attached to that conversation.
C10_AddMessageStep(p) ==
  (Steps(p, "addMessage") /\ created[p] # NoId) =>
    /\ \E m \in messages' :
         /\ m \notin messages
         /\ messages' = messages \cup {m}
         /\ \A n \in messages : n._id # m._id
         /\ m.status = SENT /\ m.status # READ
         /\ m.conversation = created[p]
         /\ m.userFrom = args[p].userFrom
         /\ m.userTo = args[p].userTo
         /\ message'[p] = m
    /\ UNCHANGED conversations
    /\ pc'[p] = "saveLastMessage"

\* Its save makes that message the conversation's lastMessage.
C10_SaveLastMessageStep(p) ==
  (Steps(p, "saveLastMessage") /\ created[p] # NoId) =>
    /\ ConvIn(conversations', created[p]).lastMessage = message[p]._id
    /\ UNCHANGED <<messages, msgCount>>
    /\ pc'[p] = "emitEvent"

\* Its later steps write nothing to the store.
C10_FanOutStep(p) ==
  (pc[p] \in FanOutPositions /\ pc'[p] # pc[p]) => UNCHANGED storeVars

\* The send that created a conversation completes, returning its message:
\* the conversation's lastMessage is that message.
C10_CompletionStep(p) ==
  (/\ pc[p] \in FanOutPositions /\ pc'[p] = "done"
   /\ result'[p].success /\ created[p] # NoId) =>
    ConvIn(conversations', created[p]).lastMessage = message[p]._id

\* A conversation's lastMessage changes only in the saveLastMessage step of
\* a send into that conversation, to the message that send created in it.
C10_LastMessageStep(c) ==
  ConvIn(conversations', c._id).lastMessage # c.lastMessage =>
    \E q \in Procs :
      /\ Steps(q, "saveLastMessage")
      /\ conversationExists[q]._id = c._id
      /\ message[q].conversation = c._id
      /\ ConvIn(conversations', c._id).lastMessage = message[q]._id

\* C10 as stated: a send that finds no conversation for the pair creates
\* exactly one conversation, PENDING, from its sender to its recipient, and
\* exactly one message with the default status SENT attached to it, and on
\* completion the conversation's lastMessage references that message.
C10_Original ==
  [][\A p \in Procs :
       /\ C10_CreateStep(p)
       /\ C10_AddMessageStep(p)
       /\ C10_CompletionStep(p)]_vars

\* C10 amended: a send that finds no conversation for the pair creates
\* exactly one conversation, PENDING, from its sender to its recipient and
\* without a lastMessage; it then creates exactly one message with the
\* default status SENT attached to that conversation, and its save makes
\* that message the conversation's lastMessage; its later steps write
\* nothing to the store, and the lastMessage changes afterwards only when
\* another send into the conversation saves the message it created there.
C10_FirstSendCreates ==
  [][/\ \A p \in Procs :
          /\ C10_CreateStep(p)
          /\ C10_AddMessageStep(p)
          /\ C10_SaveLastMessageStep(p)
          /\ C10_FanOutStep(p)
     /\ \A c \in conversations : C10_LastMessageStep(c)]_vars

\* C10 witness: the send that created the conversation has completed, and
\* the conversation's lastMessage is the message of another send into it,
\* saved after the first send's own.
C10_Witness ==
  \E p \in Procs :
    /\ pc[p] = "done" /\ result[p].success
    /\ created[p] # NoId
    /\ message[p].conversation = created[p]
    /\ message[p] \in messages
    /\ \E m \in messages :
         /\ m # message[p]
         /\ m.conversation = created[p]
         /\ ConvIn(conversations, created[p]).lastMessage = m._id

\* C11: a readMessages(conversation, userTo) call with an existing
\* conversation and an existing user sets status READ on every message of
\* that conversation addressed to that user, leaves every other message as
\* it was, adds and removes no message, and modifies no conversation.
C11_Addressed(m, c, u) == m.conversation = c /\ m.userTo = u

C11_ReadMarksOnlyAddressed ==
  /\ [](\A p \in Procs :
         pc[p] = "updateMany" =>
           /\ args[p].userTo \in Registered
           /\ \E x \in conversations : x._id = args[p].conversation)
  /\ [][\A p \in Procs :
         LET c == args[p].conversation
             u == args[p].userTo
         IN  /\ Steps(p, "updateMany") =>
                  /\ \A m \in messages :
                       IF C11_Addressed(m, c, u)
                         THEN [m EXCEPT !.status = READ] \in messages'
                         ELSE m \in messages'
                  /\ Cardinality(messages') = Cardinality(messages)
                  /\ conversations' = conversations
                  /\ lastOp'.op = "readMessages" /\ lastOp'.error = NULL
             /\ (pc[p] \in {"existsUser", "existsConversation"}
                   /\ pc'[p] # pc[p]) =>
                  /\ UNCHANGED storeVars
                  /\ pc'[p] = "done" => lastOp'.error # NULL]_vars

\* A readMessages call succeeded: one message of a conversation is READ and
\* another message of the same conversation, addressed to the other party,
\* is still SENT.
C11_Witness ==
  /\ lastOp.op = "readMessages"
  /\ lastOp.error = NULL
  /\ \E m, n \in messages :
       /\ m.conversation = n.conversation
       /\ m.userTo # n.userTo
       /\ m.status = READ
       /\ n.status = SENT

\* The errors the operations throw carry their class after "|||": 400 is
\* an invalid argument, 404 a row that was not found; an error thrown by a
\* library call carries none.
ErrorKind(error) ==
  IF error \in {"Please enter message id!|||400",
                "Please enter valid message id!|||400",
                "Please enter userTo id!|||400",
                "Please enter valid userTo id!|||400",
                "Please enter conversation id!|||400",
                "Please enter valid conversation id!|||400",
                "Conversation request rejected!|||400"}
    THEN "InvalidArgument"
  ELSE IF error = "Message not found!|||404" THEN "NotFound"
  ELSE IF error = NULL THEN "none"
  ELSE "unclassified"

\* C12: deleteMessage fails with InvalidArgument when the message id is
\* missing and with NotFound when the id is well-formed but matches no
\* message, both leaving the store unchanged; with the id of a stored message
\* it returns the deleted record and the message is no longer in the store.
C12_DeleteOutcomes ==
  [][\A id \in MessageIds :
       (DeleteMessage(id) /\ IsValidObjectId(id))
         => IF id = NoId
              THEN /\ ErrorKind(lastOp'.error) = "InvalidArgument"
                   /\ UNCHANGED storeVars
            ELSE IF \E m \in messages : m._id = id
              THEN /\ lastOp'.error = NULL
                   /\ lastOp'.data \in messages
                   /\ lastOp'.data._id = id
                   /\ messages' = messages \ {lastOp'.data}
            ELSE /\ ErrorKind(lastOp'.error) = "NotFound"
                 /\ UNCHANGED storeVars]_vars

\* The query getMessages was last called with, and what it returned.
QueryByConversation ==
  /\ lastOp.op = "getMessages"
  /\ lastOp.params.conversation # NoId
  /\ IsValidObjectId(lastOp.params.conversation)

\* C13: getMessages(conversation = C, page, limit) with page >= 1 and
\* limit >= 1 returns totalCount = the number of messages of C, totalPages =
\* ceil(totalCount / limit), and as data the messages at positions
\* (page - 1) * limit .. page * limit - 1 of C's messages ordered newest
\* first by creation time; a limit left out behaves as 10 and a page left
\* out as page 1; over the pages 1 .. totalPages, whatever each of these
\* calls returns, every message of C appears exactly once.
C13_Limit(limit) == IF limit = 0 THEN 10 ELSE limit
C13_Page(page) == IF page = 0 THEN 1 ELSE page

\* The stored message a returned message is the projection of.
C13_Stored(d) == CHOOSE m \in messages : m._id = d._id

\* The number of messages of a set created after m, and the number of the
\* others created no earlier than m.
C13_Newer(m, ms) == Cardinality({n \in ms : n.createdAt > m.createdAt})
C13_AsNew(m, ms) ==
  Cardinality({n \in ms \ {m} : n.createdAt >= m.createdAt})

\* One result for each of the pages 1 .. n of the query params, in every
\* way the calls can return.
C13_PageResults(params, n) ==
  { f \in [1 .. n -> UNION {GetMessagesResult([params EXCEPT !.page = pg]) :
                              pg \in 1 .. n}] :
      \A pg \in 1 .. n :
        f[pg] \in GetMessagesResult([params EXCEPT !.page = pg]) }

C13_PagesOfConversation ==
  (QueryByConversation /\ lastOp.params.page >= 0
     /\ lastOp.params.limit >= 0) =>
    LET params == lastOp.params
        r == lastOp.result
        ofC == {m \in messages : m.conversation = params.conversation}
        limit == C13_Limit(params.limit)
        first == (C13_Page(params.page) - 1) * limit
        left == Cardinality(ofC) - first
    IN  /\ r.success
        /\ r.totalCount = Cardinality(ofC)
        /\ r.totalPages * limit >= r.totalCount
        /\ (r.totalPages - 1) * limit < r.totalCount
        /\ Len(r.data) = IF left < 0 THEN 0
                         ELSE IF left < limit THEN left ELSE limit
        /\ \A i \in 1 .. Len(r.data) :
             /\ r.data[i] \in {WithoutTimestamps(m) : m \in ofC}
             /\ C13_Newer(C13_Stored(r.data[i]), ofC) <= first + i - 1
             /\ C13_AsNew(C13_Stored(r.data[i]), ofC) >= first + i - 1
        /\ \A f \in C13_PageResults(params, r.totalPages) :
             \A m \in ofC :
               Cardinality(
                 { <<pg, i>> \in (1 .. r.totalPages) \X (1 .. limit) :
                     /\ i <= Len(f[pg].data)
                     /\ f[pg].data[i] = WithoutTimestamps(m) }) = 1

\* A getMessages call names a conversation or a complete pair of users.
C14_Addressed(params) ==
  \/ params.conversation # NoId
  \/ params.user1 # NULL /\ params.user2 # NULL

\* The messages a getMessages call addresses.
C14_Matching(params) ==
  IF params.conversation # NoId
    THEN {m \in messages : m.conversation = params.conversation}
    ELSE {m \in messages :
            {<<m.userFrom, m.userTo>>, <<m.userTo, m.userFrom>>}
              \cap {<<params.user1, params.user2>>} # {}}

\* A getMessages call that succeeded: nothing addressed gives data = [],
\* totalCount = 0, totalPages = 0; a page past the last gives data = [] and
\* the totalCount and totalPages of page 1.
C14_EmptyIsNoFailure(params, r) ==
  \A first \in GetMessagesResult([params EXCEPT !.page = 1]) :
    /\ C14_Matching(params) = {}
      => r.data = <<>> /\ r.totalCount = 0 /\ r.totalPages = 0
    /\ (C14_Matching(params) # {} /\ params.page > first.totalPages)
      => /\ r.data = <<>>
         /\ r.totalCount = first.totalCount
         /\ r.totalPages = first.totalPages
         /\ r.totalCount = Cardinality(C14_Matching(params))

\* C14: getMessages never fails on an empty result set, a page
\* past the last returns data = [] with the same totalCount and totalPages
\* as page 1, and the call fails, with InvalidArgument, only when neither a
\* conversation id nor a complete pair of users is supplied.
C14_Original ==
  lastOp.op = "getMessages" =>
    /\ lastOp.result.success <=> C14_Addressed(lastOp.params)
    /\ ~lastOp.result.success
         => ErrorKind(lastOp.result.error) = "InvalidArgument"
    /\ lastOp.result.success
         => C14_EmptyIsNoFailure(lastOp.params, lastOp.result)

\* The name holds the text as typed, case folded.
C15_Contains(name, text) ==
  \E i \in 0 .. (Len(name) - Len(text)) :
    \A j \in 1 .. Len(text) : Lower(name[i + j]) = Lower(text[j])

\* The participant of c other than user (user, in a conversation a user has
\* with themselves).
C15_Other(c, user) ==
  IF c.userFrom = user THEN c.userTo ELSE c.userFrom

\* The conversations getConversations(user, text) is to list: user is a
\* party, the lastMessage is a stored message, and the text is empty or the
\* peer's name holds it.
C15_Listed(user, text) ==
  { c \in conversations :
      /\ user \in Participants(c)
      /\ \E m \in messages : m._id = c.lastMessage
      /\ \/ text = <<>>
         \/ /\ C15_Other(c, user) \in Registered
            /\ C15_Contains(Name(C15_Other(c, user)), text) }

\* What a getConversations call returned is the page asked for of the
\* conversations listed for its user and the text of its q, each with its
\* peer, ordered by last message, newest first, and counted by totalCount.
C15_Returns ==
  LET user == lastOp.params.user
      r == lastOp.result
      listed == C15_Listed(user, lastOp.params.q)
      limit == C13_Limit(lastOp.params.limit)
      first == (C13_Page(lastOp.params.page) - 1) * limit
      left == Cardinality(listed) - first
  IN  /\ r.success
      /\ r.totalCount = Cardinality(listed)
      /\ Len(r.data) = IF left < 0 THEN 0
                       ELSE IF left < limit THEN left ELSE limit
      /\ \A i \in 1 .. Len(r.data) :
           \E c \in listed :
             /\ c._id = r.data[i]._id
             /\ r.data[i].user._id = C15_Other(c, user)
             /\ r.data[i].lastMessage._id = c.lastMessage
      /\ \A i, j \in 1 .. Len(r.data) :
           i < j => /\ r.data[i]._id # r.data[j]._id
                    /\ r.data[i].lastMessage.createdAt
                         >= r.data[j].lastMessage.createdAt

\* C15: getConversations(user, q) returns exactly the conversations in
\* which user is a party, whose lastMessage resolves and whose peer's
\* display name contains q case-insensitively, an empty or absent q
\* matching every peer; each entry's peer is the other participant; entries
\* are ordered by the last message's creation time, newest first; the
\* others are not counted in totalCount. The pages are those of a page and
\* a limit that are left out or at least 1.
C15_ListsByKeyword ==
  (/\ lastOp.op = "getConversations"
   /\ lastOp.params.user # NULL
   /\ lastOp.params.page >= 0
   /\ lastOp.params.limit >= 0) => C15_Returns

\* C16: updateMessage fails with InvalidArgument when the message id is
\* missing or malformed and with NotFound when no message has that id,
\* leaving the stores unchanged; on success it changes only the supplied
\* fields among text and status of that one message, and never userFrom,
\* userTo or conversation, another message, or a conversation.
C16_UpdateChangesOnlySupplied ==
  [][\A id \in MessageIds, text \in {NULL, "edited"}, status \in {NULL, READ} :
       (/\ lastOp'.op = "updateMessage"
        /\ calls' # calls
        /\ UpdateMessage(id, text, status))
         => IF id = NoId \/ id = MalformedId
              THEN /\ ErrorKind(lastOp'.error) = "InvalidArgument"
                   /\ UNCHANGED storeVars
            ELSE IF ~ \E m \in messages : m._id = id
              THEN /\ ErrorKind(lastOp'.error) = "NotFound"
                   /\ UNCHANGED storeVars
            ELSE /\ lastOp'.error = NULL
                 /\ UNCHANGED <<conversations, msgCount>>
                 /\ Cardinality(messages') = Cardinality(messages)
                 /\ \A m \in messages :
                      IF m._id # id
                        THEN m \in messages'
                        ELSE \E n \in messages' :
                               /\ n = lastOp'.data
                               /\ n._id = id
                               /\ n.userFrom = m.userFrom
                               /\ n.userTo = m.userTo
                               /\ n.conversation = m.conversation
                               /\ n.text = IF text = NULL THEN m.text ELSE text
                               /\ n.status = IF status = NULL THEN m.status
                                             ELSE status]_vars

\* An updateMessage call that supplied the text alone succeeded, with another
\* message in the store.
C16_Witness ==
  /\ lastOp.op = "updateMessage"
  /\ lastOp.error = NULL
  /\ lastOp.data.text = "edited"
  /\ lastOp.data.status = SENT
  /\ lastOp.data \in messages
  /\ \E m \in messages : m._id # lastOp.data._id /\ m.text = "hi"

Range(seq) == {seq[i] : i \in 1 .. Len(seq)}

\* The errors of the fan-out's collaborators.
CollaboratorErrors ==
  {"emitEvent failed", "addNotification failed", "notify failed"}

\* C17: when the recipient has no push tokens the push step is skipped
\* silently: no push dispatch is issued to the push collaborator, no error is
\* raised, and send returns the persisted message. Stated for the sends that
\* reached the push step, to a recipient with a user document, in which no
\* collaborator failed.
C17_PushSkippedWithoutTokens ==
  \A p \in Procs :
    ( /\ pc[p] = "done"
      /\ message[p] # NoMessage
      /\ message[p].userTo \in Registered
      /\ NotifyArgs(message[p]).fcms = <<>>
      /\ Len(attempted[p]) >= 2
      /\ result[p].error \notin CollaboratorErrors )
    => /\ "notify" \notin Range(attempted[p])
       /\ result[p].success
       /\ result[p].data = message[p]

\* Where handler p is in its send, and what it has committed and called by
\* then: no message and no fan-out call before addMessage has run; the
\* message, in the resolved conversation, and no fan-out call before the
\* lastMessage save; the lastMessage set at every await of the fan-out;
\* fan-out calls only in a send that is in its fan-out or over.
C18_Position(p) ==
  /\ pc[p] \in {"findOne", "saveStatus", "create", "addMessage"}
       => message[p] = NoMessage /\ attempted[p] = <<>>
  /\ pc[p] = "saveLastMessage"
       => /\ message[p] # NoMessage
          /\ message[p].conversation = conversationExists[p]._id
          /\ attempted[p] = <<>>
  /\ pc[p] \in FanOutPositions
       => /\ message[p] # NoMessage
          /\ conversationExists[p].lastMessage = message[p]._id
  /\ attempted[p] # <<>>
       => /\ pc[p] \in FanOutPositions \cup {"done"}
          /\ message[p] # NoMessage
  /\ pc[p] \in {"existsUser", "existsConversation", "updateMany"}
       => attempted[p] = <<>>

\* The steps that take handler p from one position to the next: to
\* addMessage with the conversation resolved: stored, with the status the
\* handler holds; to the lastMessage save by persisting the message; to
\* the fan-out by storing the lastMessage, the first fan-out call following
\* that save; and the steps of the fan-out, every later call made from a fan-out
\* position, leave the stores as they are, whether a call fails or not.
C18_Step(p) ==
  /\ (pc'[p] = "addMessage" /\ pc[p] # "addMessage")
       => /\ pc[p] \in {"findOne", "saveStatus", "create"}
          /\ ConvIn(conversations', conversationExists'[p]._id).status
               = conversationExists'[p].status
  /\ (pc'[p] = "saveLastMessage" /\ pc[p] # "saveLastMessage")
       => pc[p] = "addMessage" /\ message'[p] \in messages'
  /\ (pc'[p] = "emitEvent" /\ pc[p] # "emitEvent")
       => /\ pc[p] = "saveLastMessage"
          /\ ConvIn(conversations', conversationExists[p]._id).lastMessage
               = message[p]._id
  /\ attempted'[p] # attempted[p] /\ attempted'[p] # <<>>
       => IF pc[p] = "saveLastMessage"
            THEN /\ attempted'[p] = <<"emitEvent">>
                 /\ ConvIn(conversations', message[p].conversation).lastMessage
                      = message[p]._id
                 /\ UNCHANGED messages
            ELSE /\ pc[p] \in FanOutPositions
                 /\ UNCHANGED storeVars
  /\ (pc[p] \in FanOutPositions /\ pc'[p] # pc[p])
       => /\ pc'[p] \in FanOutPositions \cup {"done"}
          /\ UNCHANGED storeVars

\* C18: in a send the conversation is resolved (created, or its status
\* change saved), then the message is persisted, then the conversation's
\* lastMessage is set, and only then the fan-out is made; no fan-out call is
\* made before those commits, and a fan-out that fails leaves the message,
\* the status change and the lastMessage as committed.
C18_CommitsBeforeFanOut ==
  /\ [](\A p \in Procs : C18_Position(p))
  /\ [][\A p \in Procs : C18_Step(p)]_vars

\* A send into a conversation it accepted ended with its first fan-out call
\* failing: the message, the ACCEPTED status and the lastMessage are stored.
C18_Witness ==
  \E p \in Procs :
    /\ pc[p] = "done"
    /\ result[p].error = "emitEvent failed"
    /\ attempted[p] = <<"emitEvent">>
    /\ message[p] \in messages
    /\ \E c \in conversations :
         /\ c._id = message[p].conversation
         /\ c.status = ACCEPTED
         /\ c.lastMessage = message[p]._id
         /\ IsReply(message[p].userFrom, c)

\* getMessages was last called by pair: no conversation id, two user ids.
C19_QueryByPair ==
  /\ lastOp.op = "getMessages"
  /\ lastOp.params.conversation = NoId
  /\ lastOp.params.user1 \in Users
  /\ lastOp.params.user2 \in Users

\* getMessages was last called with a conversation id and a pair.
C19_QueryByBoth ==
  /\ QueryByConversation
  /\ lastOp.params.user1 \in Users
  /\ lastOp.params.user2 \in Users

\* The messages sent from a to b.
C19_FromTo(a, b) == {m \in messages : m.userFrom = a /\ m.userTo = b}

\* A page and a limit that are left out or at least 1.
C19_Paged(params) == params.page >= 0 /\ params.limit >= 0

\* Result r is a page of the messages matching: it counts them all, and its
\* data are as many of them, each once, as the page asked for holds.
C19_PageOf(params, r, matching) ==
  LET limit == C13_Limit(params.limit)
      first == (C13_Page(params.page) - 1) * limit
      left == Cardinality(matching) - first
  IN  /\ r.success
      /\ r.totalCount = Cardinality(matching)
      /\ Range(r.data) \subseteq {WithoutTimestamps(m) : m \in matching}
      /\ Cardinality(Range(r.data)) = Len(r.data)
      /\ Len(r.data) = IF left < 0 THEN 0
                       ELSE IF left < limit THEN left ELSE limit

\* C19: getMessages by pair (A, B) returns what getMessages by pair (B, A)
\* returns (the two calls have the same possible outcomes, the order among
\* messages of one creation time being open in both alike), and with a page
\* and a limit left out or at least 1 the messages it counts and pages
\* through are exactly those sent from A to B or from B to A; when a
\* conversation id is supplied together with a pair, the conversation id
\* alone determines the match.
C19_PairIsSymmetric ==
  LET params == lastOp.params
      r == lastOp.result
      swapped == [params EXCEPT !.user1 = params.user2,
                                !.user2 = params.user1]
      alone == [params EXCEPT !.user1 = NULL, !.user2 = NULL]
      between == C19_FromTo(params.user1, params.user2)
                   \cup C19_FromTo(params.user2, params.user1)
  IN  /\ C19_QueryByPair
           => /\ r \in GetMessagesResult(swapped)
              /\ GetMessagesResult(params) = GetMessagesResult(swapped)
              /\ C19_Paged(params) => C19_PageOf(params, r, between)
      /\ C19_QueryByBoth
           => /\ r \in GetMessagesResult(alone)
              /\ GetMessagesResult(params) = GetMessagesResult(alone)
              /\ C19_Paged(params) =>
                   C19_PageOf(params, r,
                              {m \in messages :
                                 m.conversation = params.conversation})

\* Two addMessage calls from u1 to u2 overlapped and left the message
\* stored first with the later creation time; getMessages by the pair
\* (u2, u1) returned both, and a message sent from u2 to u1.
C19_Witness ==
  /\ C19_QueryByPair
  /\ lastOp.params.user1 = "u2"
  /\ lastOp.params.user2 = "u1"
  /\ \E m, n \in messages :
       /\ m._id < n._id /\ m.createdAt > n.createdAt
       /\ {WithoutTimestamps(m), WithoutTimestamps(n)}
            \subseteq Range(lastOp.result.data)
  /\ \E i, j \in 1 .. Len(lastOp.result.data) :
       /\ lastOp.result.data[i].userFrom = "u1"
       /\ lastOp.result.data[i].userTo = "u2"
       /\ lastOp.result.data[j].userFrom = "u2"
       /\ lastOp.result.data[j].userTo = "u1"

\* Message m is in a conversation of its own two users.
C20_InOwnConversation(m) ==
  \E c \in conversations :
    c._id = m.conversation /\ Participants(c) = Pair(m)

\* A step of handler p's send keeps every stored message as it is; the
\* addMessage step adds one message, from and to the users the send was
\* called with and in a conversation of the two, and no other step of the
\* send adds any.
C20_SendStep(p) ==
  (pc[p] \in SendPositions /\ pc'[p] # pc[p]) =>
    /\ messages \subseteq messages'
    /\ IF pc[p] = "addMessage"
         THEN \E m \in messages' :
                /\ m \notin messages
                /\ messages' = messages \cup {m}
                /\ m.userFrom = args[p].userFrom
                /\ m.userTo = args[p].userTo
                /\ message'[p] = m
                /\ \E c \in conversations' :
                     c._id = m.conversation /\ Participants(c) = Pair(m)
         ELSE messages' = messages
    /\ pc'[p] = "addMessage" =>
         pc[p] \notin {"saveLastMessage"} \cup FanOutPositions

\* C20: every message created by send references a conversation whose two
\* participants are exactly its userFrom and userTo, in either order: send
\* never attaches a message to a conversation of another pair; a send
\* creates at most one message and never modifies or deletes a stored one.
\* Every stored message of these behaviours was created by a send.
C20_MessagesBelongToTheirPair ==
  /\ [](\A m \in messages : C20_InOwnConversation(m))
  /\ [](\A p \in Procs :
         message[p] # NoMessage => C20_InOwnConversation(message[p]))
  /\ [][\A p \in Procs : C20_SendStep(p)]_vars

\* Three sends have completed: u2 has a conversation with u1 and one with
\* u3, and each of the three messages is in a conversation of its own pair.
C20_Witness ==
  /\ calls = MaxCalls
  /\ \A p \in Procs : pc[p] \in {"idle", "done"}
  /\ Cardinality(messages) = 3
  /\ Cardinality(conversations) = 2
  /\ \E m, n \in messages :
       /\ Pair(m) = {"u1", "u2"}
       /\ Pair(n) = {"u2", "u3"}
       /\ m.conversation # n.conversation
       /\ C20_InOwnConversation(m)
       /\ C20_InOwnConversation(n)

====
